---- MODULE Spec2Model ----
(***************************************************************************)
(* Model of the analysis logic of src/app.py: calculate_sma_for_analysis,  *)
(* get_slope_direction and check_trend_and_cross.                          *)
(*                                                                         *)
(* Numbers: close prices are integers, a mean is the exact rational        *)
(* num/den (den = the window), compared by cross-multiplication.  A        *)
(* pandas cell is a record with a tag: "float" for a number, "nan" for     *)
(* NaN and "none" for Python's None; dropna()/isna() treat the last two    *)
(* alike.                                                                  *)
(***************************************************************************)
EXTENDS Integers, Sequences, FiniteSets

VARIABLES ohlc_df, short_window, long_window, data_series, window,
          sma_values_series, pc, result

vars == <<ohlc_df, short_window, long_window, data_series, window,
          sma_values_series, pc, result>>

(* ------------------------------ bounds --------------------------------- *)
MaxLen == 4
MaxClose == 3
MaxWindow == 5
MaxStamp == 4
TicksPerDay == 2
MaxNum == 2
MaxDen == 2

Closes == 1..MaxClose
Stamps == 0..MaxStamp
Windows == 1..MaxWindow

(* ------------------------------ values --------------------------------- *)
Float(n, d) == [tag |-> "float", num |-> n, den |-> d]
NaN == [tag |-> "nan", num |-> 0, den |-> 1]
None == [tag |-> "none", num |-> 0, den |-> 1]

isna(v) == v.tag # "float"

Lt(a, b) == a.num * b.den < b.num * a.den
Gt(a, b) == Lt(b, a)
Le(a, b) == ~Lt(b, a)
Ge(a, b) == ~Lt(a, b)
Eq(a, b) == a.num * b.den = b.num * a.den

SeqsUpTo(S, n) == UNION {[1..k -> S] : k \in 0..n}

(* Series.dropna(): the defined cells, in order. *)
dropna(s) == SelectSeq(s, LAMBDA v : ~isna(v))

(* ------------------- calculate_sma_for_analysis ------------------------ *)
RECURSIVE RollSum(_, _, _)
(* Sum of the window ending at position i (1-based), kept as a running sum
   that adds the entering value and removes the leaving one. *)
RollSum(s, w, i) ==
    IF i = 0 THEN 0
    ELSE RollSum(s, w, i - 1) + s[i] - (IF i > w THEN s[i - w] ELSE 0)

(* Variant: the first value appears one position early. *)
RollingMean_MinPeriods(s, w) ==
    [i \in 1..Len(s) |-> IF i < w - 1 THEN NaN ELSE Float(RollSum(s, w, i), w)]

(* Series.rolling(window=w).mean(): min_periods = w. *)
RollingMean(s, w) ==
    [i \in 1..Len(s) |-> IF i < w THEN NaN ELSE Float(RollSum(s, w, i), w)]

(* Variant: a series exactly as long as the window counts as too short. *)
calculate_sma_for_analysis_Le(s, w) ==
    IF Len(s) <= w
    THEN [i \in 1..Len(s) |-> None]
    ELSE RollingMean(s, w)

calculate_sma_for_analysis(s, w) ==
    IF Len(s) < w
    THEN [i \in 1..Len(s) |-> None]
    ELSE RollingMean(s, w)

(* ------------------------ get_slope_direction -------------------------- *)
UP == "UP"
DOWN == "DOWN"
FLAT == "FLAT"

(* Variant: the last two cells are compared without dropping NaN. *)
get_slope_direction_NoDropna(s) ==
    LET n == Len(s)
    IN  IF n < 2 THEN FLAT
        ELSE IF Gt(s[n], s[n - 1]) THEN UP
        ELSE IF Lt(s[n], s[n - 1]) THEN DOWN
        ELSE FLAT

(* Variant: the two compared values are swapped. *)
get_slope_direction_Flipped(s) ==
    LET sma_values == dropna(s)
        n == Len(sma_values)
    IN  IF n < 2 THEN FLAT
        ELSE IF Gt(sma_values[n - 1], sma_values[n]) THEN UP
        ELSE IF Lt(sma_values[n - 1], sma_values[n]) THEN DOWN
        ELSE FLAT

get_slope_direction(s) ==
    LET sma_values == dropna(s)
        n == Len(sma_values)
    IN  IF n < 2 THEN FLAT
        ELSE IF Gt(sma_values[n], sma_values[n - 1]) THEN UP
        ELSE IF Lt(sma_values[n], sma_values[n - 1]) THEN DOWN
        ELSE FLAT

(* ----------------------- check_trend_and_cross ------------------------- *)
TREND_FORMAT_ERROR == "data format error"
TREND_INSUFFICIENT == "insufficient data"
TREND_INSUFFICIENT_SMA == "insufficient data for SMA"
TREND_RANGE == "range-bound"
TREND_UP == "possible uptrend"
TREND_GENTLE_UP == "possible gentle uptrend"
TREND_PULLBACK == "possible short-term pullback / caution"
TREND_DOWN == "possible downtrend"
TREND_GENTLE_DOWN == "possible gentle downtrend"
TREND_REBOUND == "possible short-term rebound / caution"

ERR_INVALID_INPUT == "InvalidInput"
ERR_INSUFFICIENT_DATA == "InsufficientData"
ERR_INSUFFICIENT_SMA == "InsufficientSmaData"

SIGNAL_NONE == [text |-> "no signal"]
SIGNAL_NA == [text |-> "N/A"]
SignalGolden(date) == [text |-> "golden cross candidate", date |-> date]
SignalDead(date) == [text |-> "dead cross candidate", date |-> date]

(* Timestamp.strftime('%Y/%m/%d'): the calendar day, time of day dropped.
   Only a DatetimeIndex entry has the method. *)
strftime(t) == [day |-> t \div TicksPerDay]
DATE_NA == [text |-> "N/A"]
SMA_NA == [text |-> "N/A"]
Rounded(v) == [hundredths |-> v]

(* round(x, 2): hundredths, ties to even. *)
round2(v) ==
    LET q == (v.num * 100) \div v.den
        r == (v.num * 100) % v.den
    IN  Rounded(IF 2 * r < v.den THEN q
                ELSE IF 2 * r > v.den THEN q + 1
                ELSE IF q % 2 = 0 THEN q ELSE q + 1)

(* Variant: the long slope is consulted before the short slope. *)
Trend_LongFirst(latest_short_sma, latest_long_sma, short_sma_slope, long_sma_slope) ==
    IF Gt(latest_short_sma, latest_long_sma)
    THEN IF long_sma_slope = UP THEN TREND_GENTLE_UP
         ELSE IF short_sma_slope = UP THEN TREND_UP
         ELSE TREND_PULLBACK
    ELSE IF Lt(latest_short_sma, latest_long_sma)
    THEN IF long_sma_slope = DOWN THEN TREND_GENTLE_DOWN
         ELSE IF short_sma_slope = DOWN THEN TREND_DOWN
         ELSE TREND_REBOUND
    ELSE TREND_RANGE

Trend(latest_short_sma, latest_long_sma, short_sma_slope, long_sma_slope) ==
    IF Gt(latest_short_sma, latest_long_sma)
    THEN IF short_sma_slope = UP THEN TREND_UP
         ELSE IF long_sma_slope = UP THEN TREND_GENTLE_UP
         ELSE TREND_PULLBACK
    ELSE IF Lt(latest_short_sma, latest_long_sma)
    THEN IF short_sma_slope = DOWN THEN TREND_DOWN
         ELSE IF long_sma_slope = DOWN THEN TREND_GENTLE_DOWN
         ELSE TREND_REBOUND
    ELSE TREND_RANGE

(* Variant: the previous values must differ strictly. *)
Signal_StrictPrev(previous_short_sma, previous_long_sma, latest_short_sma, latest_long_sma, cross_date) ==
    IF previous_short_sma # None /\ previous_long_sma # None
    THEN IF Lt(previous_short_sma, previous_long_sma)
            /\ Gt(latest_short_sma, latest_long_sma)
         THEN SignalGolden(cross_date)
         ELSE IF Gt(previous_short_sma, previous_long_sma)
                 /\ Lt(latest_short_sma, latest_long_sma)
         THEN SignalDead(cross_date)
         ELSE SIGNAL_NONE
    ELSE SIGNAL_NONE

(* Variant: the latest values may be equal at a cross. *)
Signal_LatestNonStrict(previous_short_sma, previous_long_sma, latest_short_sma, latest_long_sma, cross_date) ==
    IF previous_short_sma # None /\ previous_long_sma # None
    THEN IF Le(previous_short_sma, previous_long_sma)
            /\ Ge(latest_short_sma, latest_long_sma)
         THEN SignalGolden(cross_date)
         ELSE IF Ge(previous_short_sma, previous_long_sma)
                 /\ Le(latest_short_sma, latest_long_sma)
         THEN SignalDead(cross_date)
         ELSE SIGNAL_NONE
    ELSE SIGNAL_NONE

Signal(previous_short_sma, previous_long_sma, latest_short_sma, latest_long_sma, cross_date) ==
    IF previous_short_sma # None /\ previous_long_sma # None
    THEN IF Le(previous_short_sma, previous_long_sma)
            /\ Gt(latest_short_sma, latest_long_sma)
         THEN SignalGolden(cross_date)
         ELSE IF Ge(previous_short_sma, previous_long_sma)
                 /\ Lt(latest_short_sma, latest_long_sma)
         THEN SignalDead(cross_date)
         ELSE SIGNAL_NONE
    ELSE SIGNAL_NONE

(* short_sma_series.dropna().iloc[-1] if not empty else None *)
Latest(series) ==
    LET d == dropna(series)
    IN  IF Len(d) # 0 THEN d[Len(d)] ELSE None

(* short_sma_series.dropna().iloc[-2] if len >= 2 else None *)
Previous(series) ==
    LET d == dropna(series)
    IN  IF Len(d) >= 2 THEN d[Len(d) - 1] ELSE None

ErrorResult(kind, trend) ==
    [error |-> kind, trend |-> trend, signal |-> SIGNAL_NA,
     latest_short_sma |-> SMA_NA, short_sma_slope |-> "",
     latest_long_sma |-> SMA_NA, long_sma_slope |-> ""]

WithDate(r, date) ==
    [k \in DOMAIN r \cup {"latest_data_date"} |->
        IF k = "latest_data_date" THEN date ELSE r[k]]

(* ohlc_df.index[-1].strftime(...): raises AttributeError when the index
   entries are not timestamps. *)
HasStrftime(df) == df.indexType = "DatetimeIndex"
(* Variant: the first row's date is reported. *)
LastDate_First(df) == strftime(df.index[1])
LastDate(df) == strftime(df.index[Len(df.index)])
Raised(exc) == [exception |-> exc]

(* Variant: a series exactly as long as the long window is rejected. *)
TooShort_Le(df, lw) == Len(df.index) <= lw

(* len(ohlc_df) < long_window *)
TooShort(df, lw) == Len(df.index) < lw

(* The format check of the first guard. *)
BadFormat(df) == ~df.isDataFrame \/ "Close" \notin df.columns

check_trend_and_cross(df, sw, lw) ==
    IF BadFormat(df)
    THEN ErrorResult(ERR_INVALID_INPUT, TREND_FORMAT_ERROR)
    ELSE IF TooShort(df, lw)
    THEN IF Len(df.index) # 0
         THEN IF HasStrftime(df)
              THEN WithDate(ErrorResult(ERR_INSUFFICIENT_DATA, TREND_INSUFFICIENT),
                            LastDate(df))
              ELSE Raised("AttributeError")
         ELSE WithDate(ErrorResult(ERR_INSUFFICIENT_DATA, TREND_INSUFFICIENT),
                       DATE_NA)
    ELSE
      LET close_prices == df.Close
          short_sma_series == calculate_sma_for_analysis(close_prices, sw)
          long_sma_series == calculate_sma_for_analysis(close_prices, lw)
          latest_short_sma == Latest(short_sma_series)
          previous_short_sma == Previous(short_sma_series)
          latest_long_sma == Latest(long_sma_series)
          previous_long_sma == Previous(long_sma_series)
      IN  IF ~HasStrftime(df)
          THEN Raised("AttributeError")
          ELSE IF latest_short_sma = None \/ latest_long_sma = None
          THEN WithDate(ErrorResult(ERR_INSUFFICIENT_SMA, TREND_INSUFFICIENT_SMA),
                        LastDate(df))
          ELSE
            LET short_sma_slope == get_slope_direction(short_sma_series)
                long_sma_slope == get_slope_direction(long_sma_series)
                cross_date == LastDate(df)
            IN  [latest_short_sma |-> round2(latest_short_sma),
                 short_sma_slope |-> short_sma_slope,
                 latest_long_sma |-> round2(latest_long_sma),
                 long_sma_slope |-> long_sma_slope,
                 trend |-> Trend(latest_short_sma, latest_long_sma,
                                 short_sma_slope, long_sma_slope),
                 signal |-> Signal(previous_short_sma, previous_long_sma,
                                   latest_short_sma, latest_long_sma,
                                   cross_date),
                 latest_data_date |-> cross_date]

(* ------------------------------ inputs --------------------------------- *)
StrictlyIncreasing(s) == \A i \in 1..Len(s) - 1 : s[i] < s[i + 1]

Frame(cols, itype, idx, close) ==
    [isDataFrame |-> TRUE, columns |-> cols, indexType |-> itype,
     index |-> idx, Close |-> close]

NotAFrame ==
    [isDataFrame |-> FALSE, columns |-> {}, indexType |-> "none",
     index |-> <<>>, Close |-> <<>>]

Reverse(s) == [i \in 1..Len(s) |-> s[Len(s) + 1 - i]]

(* Timestamp columns: in date order, or the same rows newest first. *)
Indexes ==
    LET asc == {s \in SeqsUpTo(Stamps, MaxLen) : StrictlyIncreasing(s)}
    IN  asc \cup {Reverse(s) : s \in asc}

(* DataFrames with a Close column and a DatetimeIndex. *)
DatedFrames ==
    {Frame({"Open", "Close"}, "DatetimeIndex", p[1], p[2]) :
        p \in {q \in Indexes \X SeqsUpTo(Closes, MaxLen) : Len(q[1]) = Len(q[2])}}

(* DataFrames with a Close column and the default integer index. *)
RangeFrames ==
    {Frame({"Open", "Close"}, "RangeIndex", [i \in 1..Len(close) |-> i - 1], close) :
        close \in SeqsUpTo(Closes, MaxLen)}

(* DataFrames without a Close column. *)
NoCloseFrames ==
    {Frame({"Open"}, "DatetimeIndex", idx, <<>>) :
        idx \in Indexes}

Inputs == DatedFrames \cup RangeFrames \cup NoCloseFrames \cup {NotAFrame}

(* A price series as the data model defines it: close prices under
   strictly increasing timestamps. *)
WellFormed(df) ==
    /\ df.isDataFrame
    /\ "Close" \in df.columns
    /\ df.indexType = "DatetimeIndex"
    /\ StrictlyIncreasing(df.index)

Cells == {Float(n, d) : n \in 0..MaxNum, d \in 1..MaxDen} \cup {NaN, None}

NoResult == [pending |-> TRUE]

(* --------------------------- state machine ----------------------------- *)
Init ==
    /\ ohlc_df \in Inputs
    /\ short_window \in Windows
    /\ long_window \in Windows
    /\ data_series = <<>>
    /\ window = 1
    /\ sma_values_series = <<>>
    /\ pc = "call"
    /\ result = NoResult

Analyze ==
    /\ pc = "call"
    /\ result' = check_trend_and_cross(ohlc_df, short_window, long_window)
    /\ pc' = "done"
    /\ UNCHANGED <<ohlc_df, short_window, long_window, data_series, window,
                   sma_values_series>>

Next == Analyze

Spec == Init /\ [][Next]_vars

InitSma ==
    /\ data_series \in SeqsUpTo(Closes, MaxLen)
    /\ window \in Windows
    /\ ohlc_df = NotAFrame
    /\ short_window = 1
    /\ long_window = 1
    /\ sma_values_series = <<>>
    /\ pc = "call_sma"
    /\ result = NoResult

CalculateSma ==
    /\ pc = "call_sma"
    /\ result' = calculate_sma_for_analysis(data_series, window)
    /\ pc' = "done_sma"
    /\ UNCHANGED <<ohlc_df, short_window, long_window, data_series, window,
                   sma_values_series>>

NextSma == CalculateSma

SpecSma == InitSma /\ [][NextSma]_vars

InitSlope ==
    /\ sma_values_series \in SeqsUpTo(Cells, MaxLen)
    /\ ohlc_df = NotAFrame
    /\ short_window = 1
    /\ long_window = 1
    /\ data_series = <<>>
    /\ window = 1
    /\ pc = "call_slope"
    /\ result = NoResult

GetSlope ==
    /\ pc = "call_slope"
    /\ result' = get_slope_direction(sma_values_series)
    /\ pc' = "done_slope"
    /\ UNCHANGED <<ohlc_df, short_window, long_window, data_series, window,
                   sma_values_series>>

NextSlope == GetSlope

SpecSlope == InitSlope /\ [][NextSlope]_vars

(* ----------------------- vocabulary of the claims ---------------------- *)
RECURSIVE SumRange(_, _, _)
(* closes a..b added up directly. *)
SumRange(s, a, b) == IF a > b THEN 0 ELSE s[b] + SumRange(s, a, b - 1)

(* The arithmetic mean of the w closes ending at position e. *)
MeanEnding(s, w, e) == Float(SumRange(s, e - w + 1, e), w)

Max(a, b) == IF a >= b THEN a ELSE b

Done == pc = "done"
IsFault(r) == "exception" \in DOMAIN r
IsError(r) == "error" \in DOMAIN r
IsSuccess(r) == "trend" \in DOMAIN r /\ "error" \notin DOMAIN r
HasError(r, kind) == IsError(r) /\ r.error = kind

NumObs == Len(ohlc_df.index)
latestShort == MeanEnding(ohlc_df.Close, short_window, NumObs)
latestLong == MeanEnding(ohlc_df.Close, long_window, NumObs)
previousShort == MeanEnding(ohlc_df.Close, short_window, NumObs - 1)
previousLong == MeanEnding(ohlc_df.Close, long_window, NumObs - 1)
PreviousDefined == NumObs - short_window >= 1 /\ NumObs - long_window >= 1
LastObservationDate == strftime(ohlc_df.index[NumObs])

UpLabels == {TREND_UP, TREND_GENTLE_UP, TREND_PULLBACK}
DownLabels == {TREND_DOWN, TREND_GENTLE_DOWN, TREND_REBOUND}

(* C1: every non-error result carries the trend label of the ordered table:
   short above long gives uptrend when the short slope is UP, else gentle
   uptrend when the long slope is UP, else pullback; short below long gives
   downtrend / gentle downtrend / rebound by the DOWN slopes; equal gives
   range-bound. *)
C1_TrendTable ==
    (Done /\ IsSuccess(result)) =>
        LET ss == result.short_sma_slope
            sl == result.long_sma_slope
            above == Gt(latestShort, latestLong)
            below == Lt(latestShort, latestLong)
        IN  /\ (above /\ ss = UP) => result.trend = TREND_UP
            /\ (above /\ ss # UP /\ sl = UP) => result.trend = TREND_GENTLE_UP
            /\ (above /\ ss # UP /\ sl # UP) => result.trend = TREND_PULLBACK
            /\ (below /\ ss = DOWN) => result.trend = TREND_DOWN
            /\ (below /\ ss # DOWN /\ sl = DOWN) => result.trend = TREND_GENTLE_DOWN
            /\ (below /\ ss # DOWN /\ sl # DOWN) => result.trend = TREND_REBOUND
            /\ (~above /\ ~below) => result.trend = TREND_RANGE
            /\ result.trend \in UpLabels \cup DownLabels \cup {TREND_RANGE}

C1_Witness ==
    /\ Done /\ IsSuccess(result)
    /\ result.trend = TREND_GENTLE_UP
    /\ result.short_sma_slope = FLAT

(* C2: in every non-error result the signal is the golden cross tagged with
   the last observation's date when both previous SMA values exist, the
   previous short was at or below the previous long and the latest short is
   above the latest long; the dead cross symmetrically; no signal otherwise,
   in particular when a previous value is missing. *)
C2_SignalRule ==
    (Done /\ IsSuccess(result)) =>
        LET golden == /\ PreviousDefined
                      /\ Le(previousShort, previousLong)
                      /\ Gt(latestShort, latestLong)
            dead == /\ PreviousDefined
                    /\ Ge(previousShort, previousLong)
                    /\ Lt(latestShort, latestLong)
        IN  /\ golden => result.signal = SignalGolden(LastObservationDate)
            /\ dead => result.signal = SignalDead(LastObservationDate)
            /\ (~golden /\ ~dead) => result.signal = SIGNAL_NONE

C2_Witness ==
    /\ Done /\ IsSuccess(result)
    /\ PreviousDefined
    /\ Eq(previousShort, previousLong)
    /\ result.signal = SignalGolden(LastObservationDate)
    /\ NumObs >= 2
    /\ LastObservationDate # strftime(ohlc_df.index[1])

(* C3: a well-formed series shorter than the long window yields the
   InsufficientData result: trend "insufficient data", signal N/A, both SMA
   values unavailable, and the last observation's date, or no date when the
   series is empty. *)
C3_InsufficientData ==
    (Done /\ WellFormed(ohlc_df) /\ NumObs < long_window) =>
        /\ HasError(result, ERR_INSUFFICIENT_DATA)
        /\ result.trend = TREND_INSUFFICIENT
        /\ result.signal = SIGNAL_NA
        /\ result.latest_short_sma = SMA_NA
        /\ result.latest_long_sma = SMA_NA
        /\ "latest_data_date" \in DOMAIN result
        /\ result.latest_data_date =
              (IF NumObs > 0 THEN LastObservationDate ELSE DATE_NA)

C3_Witness ==
    /\ Done /\ WellFormed(ohlc_df)
    /\ NumObs >= 2 /\ NumObs < long_window
    /\ LastObservationDate # strftime(ohlc_df.index[1])
    /\ HasError(result, ERR_INSUFFICIENT_DATA)

(* C4: for a well-formed series and positive windows in either order, the
   result is a non-error result exactly when the series has at least
   max(shortWindow, longWindow) observations. *)
C4_SuccessIffLongEnough ==
    (Done /\ WellFormed(ohlc_df)) =>
        (IsSuccess(result) <=> NumObs >= Max(short_window, long_window))

C4_Witness ==
    /\ Done /\ WellFormed(ohlc_df)
    /\ short_window > long_window
    /\ NumObs = short_window
    /\ IsSuccess(result)

(* C5 as stated: for a well-formed series and positive windows the result
   never carries InsufficientSmaData. *)
C5_NeverInsufficientSma ==
    (Done /\ WellFormed(ohlc_df)) => ~HasError(result, ERR_INSUFFICIENT_SMA)

(* C5 amended: for a well-formed series and positive windows the result
   carries InsufficientSmaData exactly when longWindow <= len(series) <
   shortWindow, hence never when shortWindow <= longWindow. *)
C5_InsufficientSmaIff ==
    (Done /\ WellFormed(ohlc_df)) =>
        /\ HasError(result, ERR_INSUFFICIENT_SMA)
              <=> (long_window <= NumObs /\ NumObs < short_window)
        /\ short_window <= long_window
              => ~HasError(result, ERR_INSUFFICIENT_SMA)

C5_Witness ==
    /\ Done /\ WellFormed(ohlc_df)
    /\ long_window <= NumObs /\ NumObs < short_window
    /\ HasError(result, ERR_INSUFFICIENT_SMA)
    /\ result.latest_data_date = LastObservationDate

(* C6: no fault leaves the call: every input gives a success result or one
   of the three error kinds, an empty series gives InvalidInput or
   InsufficientData, and every input that is not a valid date-ordered price
   series gives InvalidInput. *)
C6_NoFaultInvalidInput ==
    Done =>
        /\ ~IsFault(result)
        /\ IsSuccess(result)
             \/ (IsError(result) /\ result.error \in
                    {ERR_INVALID_INPUT, ERR_INSUFFICIENT_DATA, ERR_INSUFFICIENT_SMA})
        /\ NumObs = 0 =>
              (IsError(result) /\ result.error \in
                    {ERR_INVALID_INPUT, ERR_INSUFFICIENT_DATA})
        /\ ~WellFormed(ohlc_df) => HasError(result, ERR_INVALID_INPUT)

(* C9: a strictly increasing close series with 1 <= shortWindow <
   longWindow <= len gives a non-error result with the latest short SMA
   above the latest long SMA, short slope UP and trend "possible uptrend". *)
C9_IncreasingIsUptrend ==
    (/\ Done /\ WellFormed(ohlc_df)
     /\ StrictlyIncreasing(ohlc_df.Close)
     /\ short_window < long_window /\ long_window <= NumObs) =>
        /\ IsSuccess(result)
        /\ Gt(latestShort, latestLong)
        /\ result.short_sma_slope = UP
        /\ result.trend = TREND_UP

C9_Witness ==
    /\ Done /\ WellFormed(ohlc_df)
    /\ StrictlyIncreasing(ohlc_df.Close)
    /\ short_window >= 2 /\ short_window < long_window /\ long_window = NumObs
    /\ result.trend = TREND_UP

(* C10: in every non-error result a golden cross comes only with one of the
   three short-above-long labels, a dead cross only with one of the three
   short-below-long labels, the signal is one value (never both crosses),
   and range-bound always comes with no signal. *)
C10_TrendSignalAgree ==
    (Done /\ IsSuccess(result)) =>
        /\ result.signal.text = "golden cross candidate"
              => result.trend \in UpLabels
        /\ result.signal.text = "dead cross candidate"
              => result.trend \in DownLabels
        /\ result.trend = TREND_RANGE => result.signal = SIGNAL_NONE

C10_Witness ==
    /\ Done /\ IsSuccess(result)
    /\ result.signal.text = "dead cross candidate"
    /\ result.trend = TREND_REBOUND

(* C7: the SMA series has the length of its input; with fewer closes than
   the window every position is not available; otherwise positions before
   the window-th are not available, exactly len - window + 1 positions are
   defined, and each defined position holds the mean of the window of
   closes ending there. *)
C7_SmaContract ==
    pc = "done_sma" =>
        LET n == Len(data_series)
        IN  /\ Len(result) = n
            /\ n < window => \A i \in 1..n : isna(result[i])
            /\ n >= window =>
                  /\ \A i \in 1..(window - 1) : isna(result[i])
                  /\ Cardinality({i \in 1..n : ~isna(result[i])}) = n - window + 1
                  /\ \A i \in window..n :
                        /\ ~isna(result[i])
                        /\ Eq(result[i], MeanEnding(data_series, window, i))

C7_Witness ==
    /\ pc = "done_sma"
    /\ window >= 2 /\ Len(data_series) >= window + 2
    /\ data_series[1] # data_series[window + 1]
    /\ ~isna(result[Len(data_series)])

(* C8: the slope looks only at the defined values: FLAT when fewer than two
   are defined or the last two defined are equal, UP when the last defined
   is greater than the defined one before it, DOWN when smaller, wherever
   the undefined entries sit. *)
C8_SlopeContract ==
    pc = "done_slope" =>
        LET s == sma_values_series
            D == {i \in 1..Len(s) : ~isna(s[i])}
        IN  IF Cardinality(D) < 2 THEN result = FLAT
            ELSE LET last == CHOOSE i \in D : \A j \in D : j <= i
                     prev == CHOOSE i \in D \ {last} : \A j \in D \ {last} : j <= i
                 IN  /\ Gt(s[last], s[prev]) => result = UP
                     /\ Lt(s[last], s[prev]) => result = DOWN
                     /\ Eq(s[last], s[prev]) => result = FLAT

C8_Witness ==
    /\ pc = "done_slope"
    /\ Len(sma_values_series) = 4
    /\ ~isna(sma_values_series[1])
    /\ isna(sma_values_series[2])
    /\ ~isna(sma_values_series[3])
    /\ isna(sma_values_series[4])
    /\ result = UP

====
